---------------------------- MODULE Spec2Model ----------------------------
(***************************************************************************)
(* Orchestration core of the HR recruitment agent:                         *)
(*   - FindFreeSlotsTool._run      (app/tools/calendar_search.py)          *)
(*   - the LangGraph control loop  (app/agent.py: call_model, call_tool,   *)
(*     call_create_pending_interview, should_continue)                     *)
(*   - the HITL approval endpoint  (app/main.py: approve_interview) and    *)
(*     run_approval_workflow       (app/agent.py)                          *)
(*   - the pending_interviews table (app/crud.py, app/models.py)           *)
(*                                                                         *)
(* Time is counted in minutes since 00:00 UTC of day 0.                    *)
(***************************************************************************)
EXTENDS Integers, Sequences, FiniteSets, TLC

VARIABLES
    \* ---- FindFreeSlotsTool._run ----
    start_dt,           \* parsed start_time argument
    duration_minutes,   \* duration_minutes argument
    busy_slots,         \* free/busy answer: sequence of [start, end]
    current_time,       \* the search cursor
    sf_pc,              \* "loop" | "done"
    sf_result,          \* the dict returned by _run
    \* ---- pending_interviews table ----
    interviews,         \* sequence of rows, interview_id = index
    \* ---- POST /pending-interviews/{id}/approve, one entry per HTTP request ----
    req_pc,             \* position of the request handler
    req_id,             \* its interview_id path parameter
    req_status,         \* db_interview.status as loaded into the request's session
    \* ---- run_approval_workflow, the background task of each request ----
    wf_pc,              \* position of the task
    wf_book,            \* what calendar_tool.invoke did
    wf_mail,            \* what email_tool.invoke did
    wf_link,            \* the meet_link written into the body of the mail
    \* ---- the outside world ----
    calendar_events,    \* per interview: events inserted into the calendar
    candidate_mails,    \* per interview: confirmation mails delivered
    \* ---- one run of the LangGraph control loop (agent_app.invoke) ----
    messages,           \* AgentState["messages"]
    task,               \* AgentState job_id / candidate_id
    agent_pc,           \* node to run next: "agent" | "action" | "end" | "raised"
    calls_requested,    \* tool calls the reasoning service has emitted so far
    invocations         \* log of the tool invocations made by call_tool

slot_vars == <<start_dt, duration_minutes, busy_slots, current_time, sf_pc, sf_result>>
appr_vars == <<req_pc, req_id, req_status, wf_pc, wf_book, wf_mail, wf_link,
               calendar_events, candidate_mails>>
agent_vars == <<messages, task, agent_pc, calls_requested, invocations>>
vars == <<slot_vars, interviews, appr_vars, agent_vars>>

-----------------------------------------------------------------------------
(* Bounds of the model *)

\* longest free/busy answer explored
MaxBusy == 2
\* approval requests (HTTP calls of the approve endpoint) explored
MaxRequests == 2
\* rows of pending_interviews present when the approval requests arrive
NumInterviews == 1
\* tool calls the reasoning service may request in one run of the loop
MaxToolCalls == 3
\* candidates in the candidates table
MaxCandidates == 1

-----------------------------------------------------------------------------
(* Calendar arithmetic *)

MinutesPerHour == 60
MinutesPerDay == 1440

\* timedelta(days=7)
SearchDays == 7
\* 9 <= current_time.hour < 17
OpenHour == 9
CloseHour == 17

\* datetime.hour
Hour(t) == (t \div MinutesPerHour) % 24

\* (t + timedelta(days=1)).replace(hour=9, minute=0, second=0)
NextDayOpen(t) == ((t \div MinutesPerDay) + 1) * MinutesPerDay + OpenHour * MinutesPerHour

\* faulty variant: the closing hour itself counts as inside
InBusinessHoursInclusive(t) == OpenHour <= Hour(t) /\ Hour(t) <= CloseHour
\* 9 <= current_time.hour < 17
InBusinessHours(t) == OpenHour <= Hour(t) /\ Hour(t) < CloseHour

-----------------------------------------------------------------------------
(* pending_interviews rows and crud *)

Requests == 1..MaxRequests

\* models.PendingInterview: the columns the core reads and writes
PendingRow(cid, jid, st, en) ==
    [candidate_id |-> cid, job_id |-> jid, status |-> "pending",
     summary |-> <<"Interview with", cid>>,
     proposed_start_time |-> st, proposed_end_time |-> en]

\* crud.get_pending_interview(...).first(): the row's status, "missing" for None
StatusOf(rows, id) == IF id \in DOMAIN rows THEN rows[id].status ELSE "missing"

\* faulty variant: a row whose workflow failed is removed from the table
update_interview_status_delete(rows, id, status) ==
    IF id \in DOMAIN rows
    THEN IF status = "error"
         THEN SubSeq(rows, 1, id - 1) \o SubSeq(rows, id + 1, Len(rows))
         ELSE [rows EXCEPT ![id].status = status]
    ELSE rows
\* faulty variant: the UPDATE has no filter on the id and rewrites every row
update_interview_status_all(rows, id, status) ==
    IF id \in DOMAIN rows THEN [i \in DOMAIN rows |-> [rows[i] EXCEPT !.status = status]]
    ELSE rows
\* crud.update_interview_status: re-read the row, and if it exists overwrite its
\* status and commit; the UPDATE carries no condition on the current status
update_interview_status(rows, id, status) ==
    IF id \in DOMAIN rows THEN [rows EXCEPT ![id].status = status] ELSE rows

\* a value of the meet_link variable: the hangoutLink of the event inserted by
\* run r, None, or the default text
HangoutLink(r) == [text |-> "hangoutLink", run |-> r]
None == [text |-> "None", run |-> 0]
Placeholder == [text |-> "A Google Meet link will be in the calendar invite.", run |-> 0]

\* ids of the rows the table can come to hold: those stored at the start and
\* the next id the database hands out
LedgerIds == 1..(NumInterviews + 1)

\* no approval request has arrived and no workflow task exists
ApprIdle ==
    /\ req_pc = [r \in Requests |-> "idle"]
    /\ req_id = [r \in Requests |-> 0]
    /\ req_status = [r \in Requests |-> "none"]
    /\ wf_pc = [r \in Requests |-> "none"]
    /\ wf_book = [r \in Requests |-> "none"]
    /\ wf_mail = [r \in Requests |-> "none"]
    /\ wf_link = [r \in Requests |-> None]
    /\ calendar_events = [i \in LedgerIds |-> 0]
    /\ candidate_mails = [i \in LedgerIds |-> 0]

\* slot_vars of a run in which the slot search is not exercised
SlotsIdle ==
    /\ start_dt = 0
    /\ duration_minutes = 0
    /\ busy_slots = <<>>
    /\ current_time = 0
    /\ sf_pc = "idle"
    /\ sf_result = [kind |-> "none"]


\* agent_vars when no control-loop run is in progress
AgentIdle ==
    /\ messages = <<>>
    /\ task = [candidate_id |-> 0, job_id |-> 0]
    /\ agent_pc = "idle"
    /\ calls_requested = 0
    /\ invocations = <<>>

-----------------------------------------------------------------------------
(* FindFreeSlotsTool._run *)

\* values of the start_time argument explored: 08:00, 08:30, 09:00, 09:30, 16:30, 17:30
\* of day 0
SearchStarts == {480, 510, 540, 570, 990, 1050}
\* values of the duration_minutes argument explored (the argument schema takes
\* any integer; 0 gives an empty candidate interval)
Durations == {0, 30, 60}
\* instants at which the explored busy intervals start and end: six instants of
\* day 0, 18:00 of day 6 and 00:00 of day 8
BusyGrid == {0, 540, 600, 660, 690, 1020, 9720, 11520}
BusyIntervals == {b \in [start : BusyGrid, end : BusyGrid] : b.start < b.end}

\* the free/busy service answers with disjoint intervals in chronological order
IsChronological(bs) == \A i \in 1..(Len(bs) - 1) : bs[i].end <= bs[i + 1].start
BusyLists == UNION {{bs \in [1..n -> BusyIntervals] : IsChronological(bs)} : n \in 0..MaxBusy}

\* faulty variant of the overlap test: the cursor is compared with the start of
\* the busy slot instead of its end
\* faulty variant: the busy interval is taken as closed at both ends
OverlapsClosed(cur, pend, slot) == cur <= slot.end /\ pend >= slot.start
OverlapsStartOnly(cur, pend, slot) == cur < slot.start /\ pend > slot.start
\* current_time < slot_end and potential_end_time > slot_start
Overlaps(cur, pend, slot) == cur < slot.end /\ pend > slot.start

\* index of the first busy slot (in list order) that overlaps [cur, pend), 0 if none:
\* the for loop with its break
FirstOverlap(cur, pend, bs) ==
    IF \E i \in 1..Len(bs) : Overlaps(cur, pend, bs[i])
    THEN CHOOSE i \in 1..Len(bs) :
            /\ Overlaps(cur, pend, bs[i])
            /\ \A j \in 1..(i - 1) : ~Overlaps(cur, pend, bs[j])
    ELSE 0

\* the cursor after the body of the `if 9 <= hour < 17` block, when it does not return
AfterScan(cur, dur, bs) ==
    IF InBusinessHours(cur) /\ FirstOverlap(cur, cur + dur, bs) # 0
    THEN bs[FirstOverlap(cur, cur + dur, bs)].end
    ELSE cur

\* faulty variant: after closing time the cursor goes to 09:00 of the same day
IncrementSameDay(cur, dur) ==
    IF Hour(cur) >= CloseHour
    THEN (cur \div MinutesPerDay) * MinutesPerDay + OpenHour * MinutesPerHour
    ELSE cur + dur
\* the "Increment time" statement at the end of the loop body
Increment(cur, dur) ==
    IF Hour(cur) >= CloseHour THEN NextDayOpen(cur) ELSE cur + dur

SearchEnd == start_dt + SearchDays * MinutesPerDay

SlotsInit ==
    /\ start_dt \in SearchStarts
    /\ duration_minutes \in Durations
    /\ busy_slots \in BusyLists
    /\ current_time = start_dt
    /\ sf_pc = "loop"
    /\ sf_result = [kind |-> "none"]

\* one iteration that finds the slot free and returns it
SlotFound ==
    /\ sf_pc = "loop"
    /\ current_time < SearchEnd
    /\ InBusinessHours(current_time)
    /\ FirstOverlap(current_time, current_time + duration_minutes, busy_slots) = 0
    /\ sf_result' = [kind |-> "slot",
                     start_time |-> current_time,
                     end_time |-> current_time + duration_minutes]
    /\ sf_pc' = "done"
    /\ UNCHANGED <<start_dt, duration_minutes, busy_slots, current_time, interviews, appr_vars, agent_vars>>

\* one iteration that does not return: outside business hours, or an overlap
SlotAdvance ==
    /\ sf_pc = "loop"
    /\ current_time < SearchEnd
    /\ ~(/\ InBusinessHours(current_time)
         /\ FirstOverlap(current_time, current_time + duration_minutes, busy_slots) = 0)
    /\ current_time' = Increment(AfterScan(current_time, duration_minutes, busy_slots),
                                 duration_minutes)
    /\ UNCHANGED <<start_dt, duration_minutes, busy_slots, sf_pc, sf_result, interviews, appr_vars, agent_vars>>

\* the while condition fails: "No free slots found in the next 7 days."
SlotExhausted ==
    /\ sf_pc = "loop"
    /\ current_time >= SearchEnd
    /\ sf_result' = [kind |-> "error"]
    /\ sf_pc' = "done"
    /\ UNCHANGED <<start_dt, duration_minutes, busy_slots, current_time, interviews, appr_vars, agent_vars>>

SlotsNext == SlotFound \/ SlotAdvance \/ SlotExhausted

SlotsFullInit == SlotsInit /\ interviews = <<>> /\ ApprIdle /\ AgentIdle

SpecSlots == SlotsFullInit /\ [][SlotsNext]_vars

\* _run is straight-line code on one thread: while an iteration or a return is
\* possible, the interpreter goes on to execute it
SpecSlotsFair == SlotsFullInit /\ [][SlotsNext]_vars /\ WF_vars(SlotsNext)

-----------------------------------------------------------------------------
(* approve_interview (app/main.py) *)

\* ids the requests may name: every stored row and one id with no row
RequestIds == 1..(NumInterviews + 1)

\* db_interview = crud.get_pending_interview(db, interview_id)
ApproveRead(r) ==
    /\ req_pc[r] = "idle"
    /\ \E id \in RequestIds :
        /\ req_id' = [req_id EXCEPT ![r] = id]
        /\ req_status' = [req_status EXCEPT ![r] = StatusOf(interviews, id)]
    /\ req_pc' = [req_pc EXCEPT ![r] = "read"]
    /\ UNCHANGED <<slot_vars, agent_vars, interviews, wf_pc, wf_book, wf_mail, wf_link,
                   calendar_events, candidate_mails>>

\* faulty variant of the guard: only the existence of the row is checked
ApproveGuardExistsOnly(st) ==
    IF st = "missing" THEN "http404" ELSE "checked"
\* if not db_interview: 404;  if db_interview.status != 'pending': 400
ApproveGuard(st) ==
    IF st = "missing" THEN "http404"
    ELSE IF st # "pending" THEN "http400"
    ELSE "checked"

ApproveCheck(r) ==
    /\ req_pc[r] = "read"
    /\ req_pc' = [req_pc EXCEPT ![r] = ApproveGuard(req_status[r])]
    /\ UNCHANGED <<slot_vars, agent_vars, interviews, req_id, req_status, wf_pc, wf_book, wf_mail, wf_link,
                   calendar_events, candidate_mails>>

\* db_interview = crud.update_interview_status(db, interview_id, "approved")
ApproveWrite(r) ==
    /\ req_pc[r] = "checked"
    /\ interviews' = update_interview_status(interviews, req_id[r], "approved")
    /\ req_pc' = [req_pc EXCEPT ![r] = "written"]
    /\ UNCHANGED <<slot_vars, agent_vars, req_id, req_status, wf_pc, wf_book, wf_mail, wf_link,
                   calendar_events, candidate_mails>>

\* background_tasks.add_task(run_approval_workflow, interview_id); return
ApproveEnqueue(r) ==
    /\ req_pc[r] = "written"
    /\ wf_pc' = [wf_pc EXCEPT ![r] = "queued"]
    /\ req_pc' = [req_pc EXCEPT ![r] = "http200"]
    /\ UNCHANGED <<slot_vars, agent_vars, interviews, req_id, req_status, wf_book, wf_mail, wf_link,
                   calendar_events, candidate_mails>>

-----------------------------------------------------------------------------
(* run_approval_workflow (app/agent.py) *)

\* what CreateCalendarEventTool().invoke can do: return the JSON of a created
\* event (with or without a hangoutLink), return {"error": ...}, or raise
BookOutcomes == {"created", "created_no_link", "error_result", "raised"}
\* what SendGmailTool().invoke can do: return the success text, return an error
\* text, or raise
MailOutcomes == {"sent", "error_result", "raised"}

\* what a database call of the workflow can do: return, or raise (the engine
\* raises OperationalError when the database cannot be reached or written)
DbOutcomes == {"ok", "raise"}

\* the text returned by CreateCalendarEventTool._run in run r, parsed:
\* {"status", "html_link", "meet_link": event.get('hangoutLink')} or {"error"}
result_json(out, r) ==
    IF out = "created"
    THEN [status |-> "Event created successfully!", meet_link |-> HangoutLink(r)]
    ELSE IF out = "created_no_link"
    THEN [status |-> "Event created successfully!", meet_link |-> None]
    ELSE [error |-> "An error occurred"]

\* faulty variant: the default text is used whatever the result holds
meet_link_default_only(event_result) == Placeholder
\* faulty variant: the value of the key is taken as it is, None included
meet_link_no_default(event_result) ==
    IF "meet_link" \in DOMAIN event_result THEN event_result.meet_link ELSE None
\* meet_link = default; if event_result.get("meet_link"): meet_link = that value
meet_link(event_result) ==
    IF "meet_link" \in DOMAIN event_result /\ event_result.meet_link # None
    THEN event_result.meet_link
    ELSE Placeholder

\* faulty variant: the status is not checked again, only the row's existence
LookupNextExistsOnly(st) == IF st = "missing" THEN "aborted" ELSE "book"
\* if not interview or interview.status != 'approved': return
LookupNext(st) == IF st = "approved" THEN "book" ELSE "aborted"

\* step 1: load the row; return unless it exists and is 'approved'; load the
\* candidate (the row's foreign key, always present).  An exception of the
\* queries goes to the except block
WfLookup(r) ==
    /\ wf_pc[r] = "queued"
    /\ \E db \in DbOutcomes :
        wf_pc' = [wf_pc EXCEPT ![r] =
                    IF db = "raise" THEN "failed"
                    ELSE LookupNext(StatusOf(interviews, req_id[r]))]
    /\ UNCHANGED <<slot_vars, agent_vars, interviews, req_pc, req_id, req_status, wf_book, wf_mail, wf_link,
                   calendar_events, candidate_mails>>

\* step 2: calendar_tool.invoke({...}); an exception goes to the except block
WfBook(r) ==
    /\ wf_pc[r] = "book"
    /\ \E out \in BookOutcomes :
        /\ wf_book' = [wf_book EXCEPT ![r] = out]
        /\ calendar_events' =
              IF out \in {"created", "created_no_link"}
              THEN [calendar_events EXCEPT ![req_id[r]] = @ + 1]
              ELSE calendar_events
        /\ wf_pc' = [wf_pc EXCEPT ![r] = IF out = "raised" THEN "failed" ELSE "notify"]
    /\ UNCHANGED <<slot_vars, agent_vars, interviews, req_pc, req_id, req_status, wf_mail, wf_link,
                   candidate_mails>>

\* steps 3-4: parse the result for meet_link (placeholder if absent), build the
\* mail and email_tool.invoke({...}); the returned text is only printed
WfNotify(r) ==
    /\ wf_pc[r] = "notify"
    /\ \E out \in MailOutcomes :
        /\ wf_mail' = [wf_mail EXCEPT ![r] = out]
        /\ wf_link' = [wf_link EXCEPT ![r] = meet_link(result_json(wf_book[r], r))]
        /\ candidate_mails' =
              IF out = "sent"
              THEN [candidate_mails EXCEPT ![req_id[r]] = @ + 1]
              ELSE candidate_mails
        /\ wf_pc' = [wf_pc EXCEPT ![r] = IF out = "raised" THEN "failed" ELSE "update"]
    /\ UNCHANGED <<slot_vars, agent_vars, interviews, req_pc, req_id, req_status, wf_book,
                   calendar_events>>

\* step 5: crud.update_interview_status(db, interview_id, "scheduled"); an
\* exception of the write goes to the except block and the row keeps its status
WfMarkScheduled(r) ==
    /\ wf_pc[r] = "update"
    /\ \E db \in DbOutcomes :
        IF db = "ok"
        THEN /\ interviews' = update_interview_status(interviews, req_id[r], "scheduled")
             /\ wf_pc' = [wf_pc EXCEPT ![r] = "done"]
        ELSE /\ interviews' = interviews
             /\ wf_pc' = [wf_pc EXCEPT ![r] = "failed"]
    /\ UNCHANGED <<slot_vars, agent_vars, req_pc, req_id, req_status, wf_book, wf_mail, wf_link,
                   calendar_events, candidate_mails>>

\* except Exception: crud.update_interview_status(db, interview_id, "error").
\* The write stands inside the except block, under no try of its own: when it
\* raises, the exception leaves run_approval_workflow (after finally: db.close())
WfMarkError(r) ==
    /\ wf_pc[r] = "failed"
    /\ \E db \in DbOutcomes :
        IF db = "ok"
        THEN /\ interviews' = update_interview_status(interviews, req_id[r], "error")
             /\ wf_pc' = [wf_pc EXCEPT ![r] = "done"]
        ELSE /\ interviews' = interviews
             /\ wf_pc' = [wf_pc EXCEPT ![r] = "propagated"]
    /\ UNCHANGED <<slot_vars, agent_vars, req_pc, req_id, req_status, wf_book, wf_mail, wf_link,
                   calendar_events, candidate_mails>>

-----------------------------------------------------------------------------
(* Approval requests served concurrently (FastAPI runs the synchronous       *)
(* handler and its background task on thread-pool workers, each with its     *)
(* own database session)                                                     *)

\* the proposed interval of the rows present at the start: 10:00-11:00 of day 1
StoredStart == 2040
StoredEnd == 2100

ApprovalInit ==
    /\ SlotsIdle
    /\ AgentIdle
    /\ interviews = [i \in 1..NumInterviews |-> PendingRow(i, 1, StoredStart, StoredEnd)]
    /\ ApprIdle

ApprovalNext ==
    \E r \in Requests :
        \/ ApproveRead(r)
        \/ ApproveCheck(r)
        \/ ApproveWrite(r)
        \/ ApproveEnqueue(r)
        \/ WfLookup(r)
        \/ WfBook(r)
        \/ WfNotify(r)
        \/ WfMarkScheduled(r)
        \/ WfMarkError(r)

SpecApproval == ApprovalInit /\ [][ApprovalNext]_vars

(* Approval requests sent one after the other: a request is read only when  *)
(* every earlier request has been answered; the background tasks still run  *)
(* on their own workers                                                     *)
Answered(r) == req_pc[r] \in {"idle", "http404", "http400", "http200"}

ApproveReadAlone(r) ==
    /\ \A q \in Requests \ {r} : Answered(q)
    /\ ApproveRead(r)

ApprovalSeqNext ==
    \E r \in Requests :
        \/ ApproveReadAlone(r)
        \/ ApproveCheck(r)
        \/ ApproveWrite(r)
        \/ ApproveEnqueue(r)
        \/ WfLookup(r)
        \/ WfBook(r)
        \/ WfNotify(r)
        \/ WfMarkScheduled(r)
        \/ WfMarkError(r)

SpecApprovalSeq == ApprovalInit /\ [][ApprovalSeqNext]_vars

-----------------------------------------------------------------------------
(* ISO-8601 text <-> datetime.  A timestamp text is the tuple <<day, hour,    *)
(* minute>> of its fields; a datetime is a number of minutes                  *)

\* datetime.fromisoformat accepts the text (otherwise it raises ValueError)
IsIsoFormat(s) == Len(s) = 3 /\ s[2] \in 0..23 /\ s[3] \in 0..59
\* datetime.fromisoformat
fromisoformat(s) == s[1] * MinutesPerDay + s[2] * MinutesPerHour + s[3]
\* datetime.isoformat
isoformat(t) ==
    <<t \div MinutesPerDay, (t % MinutesPerDay) \div MinutesPerHour, t % MinutesPerHour>>

-----------------------------------------------------------------------------
(* The reasoning service's tool calls *)

\* tools = [SendGmailTool(), CreateCalendarEventTool(), FindFreeSlotsTool()]
tools == {"send_gmail", "create_calendar_event", "find_free_calendar_slot"}
ControlTool == "create_pending_interview"
\* a name the reasoning service may invent
UnknownTool == "lookup_candidate"

\* start texts and durations the reasoning service passes to the control tool:
\* day 1 15:30 and day 2 09:00; 45 minutes and 0 minutes
IsoTimes == {<<1, 15, 30>>, <<2, 9, 0>>}
DurationArgs == {45, 0}

\* the two argument shapes of the control tool
TimeShape(T, d) == [interview_time |-> T, interview_duration_minutes |-> d]
EndShape(T, d) == [start_time |-> T, end_time |-> isoformat(fromisoformat(T) + d)]

ControlArgs ==
    {TimeShape(<<1, 15, 30>>, 45), EndShape(<<1, 15, 30>>, 45),
     TimeShape(<<2, 9, 0>>, 0), EndShape(<<2, 9, 0>>, 0),
     [end_time |-> <<1, 16, 15>>],       \* no start text
     [start_time |-> <<1, 15, 30>>]}     \* neither end text nor duration
\* the arguments of the action tools play no part in the dispatch
ActionArgs == [to |-> "hr"]

\* name and args of a tool call; its id is assigned when the call is emitted
CallShapes ==
    [name : {ControlTool}, args : ControlArgs]
        \cup [name : tools \cup {UnknownTool}, args : {ActionArgs}]

\* what tool.invoke(args) can do for a registered tool: return its normal
\* result, return its error payload, or raise (argument validation, credentials)
ToolOutcomes == {"ok", "error", "raise"}

\* tool_call_id given to the control tool's result when args has no "tool_call_id"
\* ("custom_tool_0"); the ids of the reasoning service's calls are 1, 2, ...
CustomToolId == 0
\* the tool_call_id field of a message that is no ToolMessage
NoToolCallId == -1

-----------------------------------------------------------------------------
(* Messages *)

HumanMessage == [role |-> "human", tool_calls |-> <<>>, tool_call_id |-> NoToolCallId,
                 content |-> "task", interview_id |-> 0]
AIMessage(content, calls) ==
    [role |-> "ai", tool_calls |-> calls, tool_call_id |-> NoToolCallId,
     content |-> content, interview_id |-> 0]
ToolMessage(content, id, iid) ==
    [role |-> "tool", tool_calls |-> <<>>, tool_call_id |-> id,
     content |-> content, interview_id |-> iid]

-----------------------------------------------------------------------------
(* call_create_pending_interview (app/agent.py) *)

\* dict.get(key): the value, or None (written <<>>, falsy like the empty text)
Get(args, key) == IF key \in DOMAIN args THEN args[key] ELSE <<>>

\* args.get("interview_time") or args.get("start_time")
StartTimeStr(args) ==
    IF Get(args, "interview_time") # <<>>
    THEN Get(args, "interview_time")
    ELSE Get(args, "start_time")

\* faulty variant: the duration is taken as seconds
DurationEndSeconds(start_time, minutes) == start_time + (minutes \div 60)
\* start_time + timedelta(minutes=int(args["interview_duration_minutes"]))
DurationEnd(start_time, minutes) == start_time + minutes

\* faulty variant: a call without end text and without duration gets 60 minutes
ParseProposalDefaultDuration(args) ==
    LET s == StartTimeStr(args) IN
    IF s = <<>> \/ ~IsIsoFormat(s)
    THEN [ok |-> FALSE, start_time |-> 0, end_time |-> 0]
    ELSE IF "end_time" \in DOMAIN args
    THEN IF IsIsoFormat(args["end_time"])
         THEN [ok |-> TRUE, start_time |-> fromisoformat(s),
               end_time |-> fromisoformat(args["end_time"])]
         ELSE [ok |-> FALSE, start_time |-> 0, end_time |-> 0]
    ELSE IF "interview_duration_minutes" \in DOMAIN args
    THEN [ok |-> TRUE, start_time |-> fromisoformat(s),
          end_time |-> DurationEnd(fromisoformat(s), args["interview_duration_minutes"])]
    ELSE [ok |-> TRUE, start_time |-> fromisoformat(s),
          end_time |-> DurationEnd(fromisoformat(s), 60)]

\* the try block up to the schema: [ok, start_time, end_time]; ok = FALSE when a
\* ValueError is raised (missing argument, text that is no timestamp)
ParseProposal(args) ==
    LET s == StartTimeStr(args) IN
    IF s = <<>> \/ ~IsIsoFormat(s)
    THEN [ok |-> FALSE, start_time |-> 0, end_time |-> 0]
    ELSE IF "end_time" \in DOMAIN args
    THEN IF IsIsoFormat(args["end_time"])
         THEN [ok |-> TRUE, start_time |-> fromisoformat(s),
               end_time |-> fromisoformat(args["end_time"])]
         ELSE [ok |-> FALSE, start_time |-> 0, end_time |-> 0]
    ELSE IF "interview_duration_minutes" \in DOMAIN args
    THEN [ok |-> TRUE, start_time |-> fromisoformat(s),
          end_time |-> DurationEnd(fromisoformat(s), args["interview_duration_minutes"])]
    ELSE [ok |-> FALSE, start_time |-> 0, end_time |-> 0]

\* faulty variant: the newest row is overwritten once the table has a row
create_pending_interview_upsert(rows, cid, jid, st, en) ==
    IF rows = <<>> THEN Append(rows, PendingRow(cid, jid, st, en))
    ELSE [rows EXCEPT ![Len(rows)] = PendingRow(cid, jid, st, en)]
\* crud.create_pending_interview: insert the row with status 'pending'
create_pending_interview(rows, cid, jid, st, en) == Append(rows, PendingRow(cid, jid, st, en))

\* tool_call_id=args.get("tool_call_id", "custom_tool_0")
ControlResultId(args) ==
    IF "tool_call_id" \in DOMAIN args THEN args["tool_call_id"] ELSE CustomToolId

\* faulty variant: success is reported although the commit raised
call_create_pending_interview_optimistic(rows, state, args, db) ==
    LET p == ParseProposal(args) IN
    IF p.ok /\ db = "raise"
    THEN [rows |-> rows,
          msg |-> ToolMessage("success_true", ControlResultId(args), Len(rows) + 1)]
    ELSE IF p.ok
    THEN LET rows2 == create_pending_interview(rows, state.candidate_id, state.job_id,
                                               p.start_time, p.end_time)
         IN [rows |-> rows2,
             msg |-> ToolMessage("success_true", ControlResultId(args), Len(rows2))]
    ELSE [rows |-> rows,
          msg |-> ToolMessage("success_false", ControlResultId(args), 0)]

\* call_create_pending_interview(state, args): the rows afterwards and the
\* ToolMessage returned; db tells whether crud.create_pending_interview returns
\* or raises (caught by `except Exception`, like the ValueErrors)
call_create_pending_interview(rows, state, args, db) ==
    LET p == ParseProposal(args) IN
    IF p.ok /\ db = "ok"
    THEN LET rows2 == create_pending_interview(rows, state.candidate_id, state.job_id,
                                               p.start_time, p.end_time)
         IN [rows |-> rows2,
             msg |-> ToolMessage("success_true", ControlResultId(args), Len(rows2))]
    ELSE [rows |-> rows,
          msg |-> ToolMessage("success_false", ControlResultId(args), 0)]

-----------------------------------------------------------------------------
(* call_tool (app/agent.py) *)

\* faulty variant: the result is put in front of the results collected so far
AppendResultFront(msgs, m) == <<m>> \o msgs
\* tool_messages.append(...)
AppendResult(msgs, m) == Append(msgs, m)

\* the body of the for loop for one tool call; acc carries the tool_messages
\* list, the table, the invocation log and whether an exception is in flight
DispatchOne(call, out, state, acc) ==
    IF acc.raised THEN acc
    ELSE IF call.name = ControlTool
    THEN LET res == call_create_pending_interview(acc.rows, state, call.args, out) IN
         [acc EXCEPT !.rows = res.rows,
                     !.msgs = AppendResult(@, res.msg),
                     !.log = Append(@, [call |-> call, outcome |-> res.msg.content,
                                        interview_id |-> res.msg.interview_id])]
    ELSE IF call.name \in tools
    THEN IF out = "raise"
         THEN [acc EXCEPT !.raised = TRUE,
                          !.log = Append(@, [call |-> call, outcome |-> "raise",
                                             interview_id |-> 0])]
         ELSE [acc EXCEPT !.msgs = AppendResult(@, ToolMessage(out, call.id, 0)),
                          !.log = Append(@, [call |-> call, outcome |-> out,
                                             interview_id |-> 0])]
    ELSE [acc EXCEPT !.msgs = AppendResult(@, ToolMessage("not_found", call.id, 0))]

RECURSIVE DispatchAll(_, _, _, _, _)
\* for tool_call in last_message.tool_calls, from the k-th call on
DispatchAll(k, calls, outs, state, acc) ==
    IF k > Len(calls) THEN acc
    ELSE DispatchAll(k + 1, calls, outs, state, DispatchOne(calls[k], outs[k], state, acc))

\* faulty variant: the edge to "action" is taken whatever the last message is
should_continue_unconditional(msgs) == "action"
\* should_continue: the next node after "agent"
should_continue(msgs) ==
    IF msgs[Len(msgs)].tool_calls # <<>> THEN "action" ELSE "end"

\* batches of n tool calls with the ids first..first+n-1
Batches(n, first) ==
    {[k \in 1..n |-> [name |-> shapes[k].name, args |-> shapes[k].args, id |-> first + k - 1]] :
        shapes \in [1..n -> CallShapes]}

\* what agent_runnable.invoke can answer: a final text, a request for tool calls,
\* or an exception, which call_model turns into the message "Error: ..."
ModelResponses ==
    {AIMessage("final", <<>>), AIMessage("model_error", <<>>)}
        \cup UNION {{AIMessage("request", b) : b \in Batches(n, calls_requested + 1)} :
                        n \in 1..(MaxToolCalls - calls_requested)}

\* faulty variant: a channel without reducer, the node's list replaces the old one
messages_overwrite(x, y) == y
\* the reducer of the messages channel: lambda x, y: x + y
messages_reducer(x, y) == x \o y

\* node "agent": call_model, then the conditional edge should_continue
CallModel ==
    /\ agent_pc = "agent"
    /\ \E response \in ModelResponses :
        /\ messages' = messages_reducer(messages, <<response>>)
        /\ calls_requested' = calls_requested + Len(response.tool_calls)
    /\ agent_pc' = should_continue(messages')
    /\ UNCHANGED <<slot_vars, appr_vars, interviews, task, invocations>>

\* outcomes are drawn for the registered action tools only; in the runs of the
\* loop the database is reachable (its failures are explored in SpecControl)
OutcomeChoices(calls) ==
    {outs \in [1..Len(calls) -> ToolOutcomes] :
        \A k \in 1..Len(calls) : calls[k].name \notin tools => outs[k] = "ok"}

\* node "action": call_tool, then the edge back to "agent".  An exception raised
\* by tool.invoke leaves call_tool and the graph run; the rows already committed
\* and the invocations already made stay
CallTool ==
    /\ agent_pc = "action"
    /\ LET calls == messages[Len(messages)].tool_calls IN
       \E outs \in OutcomeChoices(calls) :
          LET acc == DispatchAll(1, calls, outs, task,
                                 [msgs |-> <<>>, rows |-> interviews,
                                  log |-> invocations, raised |-> FALSE])
          IN /\ interviews' = acc.rows
             /\ invocations' = acc.log
             /\ messages' = IF acc.raised THEN messages
                            ELSE messages_reducer(messages, acc.msgs)
             /\ agent_pc' = IF acc.raised THEN "raised" ELSE "agent"
    /\ UNCHANGED <<slot_vars, appr_vars, task, calls_requested>>

CandidateIds == 1..MaxCandidates

\* agent_app.invoke(initial_state) for a candidate of the candidates table
AgentInit ==
    /\ SlotsIdle
    /\ ApprIdle
    /\ interviews = <<>>
    /\ messages = <<HumanMessage>>
    /\ task \in [candidate_id : CandidateIds, job_id : {1}]
    /\ agent_pc = "agent"
    /\ calls_requested = 0
    /\ invocations = <<>>

AgentNext == CallModel \/ CallTool

SpecAgent == AgentInit /\ [][AgentNext]_vars

-----------------------------------------------------------------------------
(* The control tool on its own: the calls of create_pending_interview that a  *)
(* run dispatches, one at a time, with a database that returns or raises     *)

\* one dispatch of the branch name == "create_pending_interview" of call_tool;
\* a call whose arguments do not parse never reaches the database
ControlCall ==
    /\ agent_pc = "action"
    /\ calls_requested < MaxToolCalls
    /\ \E a \in ControlArgs, db \in DbOutcomes :
        /\ ~ParseProposal(a).ok => db = "ok"
        /\ LET res == call_create_pending_interview(interviews, task, a, db) IN
            /\ interviews' = res.rows
            /\ messages' = AppendResult(messages, res.msg)
            /\ invocations' =
                  Append(invocations,
                         [call |-> [name |-> ControlTool, args |-> a,
                                    id |-> calls_requested + 1],
                          outcome |-> res.msg.content,
                          interview_id |-> res.msg.interview_id,
                          db |-> db])
    /\ calls_requested' = calls_requested + 1
    /\ UNCHANGED <<slot_vars, appr_vars, task, agent_pc>>

\* the task context of the run: its candidate and one of two jobs
ControlInit ==
    /\ SlotsIdle
    /\ ApprIdle
    /\ interviews = <<>>
    /\ messages = <<HumanMessage>>
    /\ task \in [candidate_id : CandidateIds, job_id : {1, 2}]
    /\ agent_pc = "action"
    /\ calls_requested = 0
    /\ invocations = <<>>

SpecControl == ControlInit /\ [][ControlCall]_vars

-----------------------------------------------------------------------------
(* Control-loop runs and approval workflows of several candidates at once:   *)
(* POST /run-agent queues agent_app.invoke as a background task, and the     *)
(* workflows of the approved rows run on other workers over the same table.  *)
(* The approval requests arrive one after the other, as in SpecApprovalSeq   *)

\* the candidate a run is started for: one who has no row yet
Proposers == {NumInterviews + 1}

\* the step of a run that touches the table: call_create_pending_interview for
\* the run's own candidate_id and job_id (its conversation is the run's own
\* state and is not followed here)
ProposeInterview ==
    /\ Len(interviews) + 1 \in LedgerIds
    /\ \E c \in Proposers, a \in ControlArgs, db \in DbOutcomes :
        interviews' = call_create_pending_interview(
                          interviews, [candidate_id |-> c, job_id |-> 1], a, db).rows
    /\ UNCHANGED <<slot_vars, appr_vars, agent_vars>>

CandidatesNext == ApprovalSeqNext \/ ProposeInterview

SpecCandidates == ApprovalInit /\ [][CandidatesNext]_vars

-----------------------------------------------------------------------------
(* Properties of the slot search *)

\* half-open intervals [t, t + d) and [b.start, b.end) have no instant in common
Disjoint(t, d, b) == t + d <= b.start \/ b.end <= t

\* t is a start the contract allows: not before search_start, inside business
\* hours, before the horizon, and clear of every busy interval
Qualifies(t) ==
    /\ t >= start_dt
    /\ InBusinessHours(t)
    /\ t < SearchEnd
    /\ \A i \in 1..Len(busy_slots) : Disjoint(t, duration_minutes, busy_slots[i])

\* C1: whenever some start qualifies, the search returns the smallest qualifying
\* start, with end_time = start_time + duration
C1_EarliestSlot ==
    (sf_pc = "done" /\ \E t \in start_dt..(SearchEnd - 1) : Qualifies(t))
        => /\ sf_result.kind = "slot"
           /\ Qualifies(sf_result.start_time)
           /\ ~\E t \in start_dt..(sf_result.start_time - 1) : Qualifies(t)
           /\ sf_result.end_time = sf_result.start_time + duration_minutes

\* C2: a returned slot overlaps no busy interval and does not start before
\* search_start
C2_SlotClearOfBusy ==
    sf_result.kind = "slot"
        => /\ \A i \in 1..Len(busy_slots) :
                ~(sf_result.start_time < busy_slots[i].end
                  /\ sf_result.end_time > busy_slots[i].start)
           /\ sf_result.start_time >= start_dt

\* C2 witness: a slot was returned after the cursor moved past two busy intervals
C2_Witness ==
    /\ sf_pc = "done"
    /\ sf_result.kind = "slot"
    /\ Len(busy_slots) = 2
    /\ \A i \in 1..2 : /\ busy_slots[i].start >= start_dt
                       /\ busy_slots[i].end <= sf_result.start_time

-----------------------------------------------------------------------------
(* Properties of the approval flow *)

\* requests for row i whose handler wrote 'approved'
Approvers(i) == {r \in Requests : req_id[r] = i /\ req_pc[r] \in {"written", "http200"}}
\* requests for row i whose handler enqueued run_approval_workflow
Launchers(i) == {r \in Requests : req_id[r] = i /\ wf_pc[r] # "none"}
\* workflow tasks for row i that got past the status re-check into the body
BodyRuns(i) == {r \in Requests : req_id[r] = i /\ wf_pc[r] \notin {"none", "queued", "aborted"}}

\* C3: with approval requests sent one after the other, a row makes one
\* transition pending -> approved, one workflow is enqueued and its body runs at
\* most once; a request that reads a status other than pending is refused,
\* writes nothing and launches nothing
C3_SequentialApprovalOnce ==
    /\ \A i \in 1..NumInterviews :
        /\ Cardinality(Approvers(i)) <= 1
        /\ Cardinality(Launchers(i)) <= 1
        /\ Cardinality(BodyRuns(i)) <= 1
        /\ calendar_events[i] <= 1
        /\ candidate_mails[i] <= 1
        /\ (\E r \in Requests : req_id[r] = i /\ req_pc[r] \in {"http400", "http200"})
              => Cardinality({r \in Requests : req_id[r] = i /\ req_pc[r] = "http200"}) = 1
    /\ \A r \in Requests :
        (req_pc[r] \notin {"idle", "read"} /\ req_status[r] # "pending")
            => req_pc[r] \in {"http400", "http404"} /\ wf_pc[r] = "none"

\* C3 witness: two requests for the same row, the first approved and its
\* workflow finished, the second refused
C3_Witness ==
    \E r1, r2 \in Requests :
        /\ r1 # r2
        /\ req_id[r1] \in 1..NumInterviews
        /\ req_id[r2] = req_id[r1]
        /\ req_pc[r1] = "http200"
        /\ req_pc[r2] = "http400"
        /\ wf_pc[r1] = "done"
        /\ interviews[req_id[r1]].status = "scheduled"

\* C4: with concurrent approval requests, at most one launches the workflow and
\* at most one calendar event is created per row
C4_ConcurrentApprovalOnce ==
    \A i \in 1..NumInterviews :
        /\ Cardinality(Launchers(i)) <= 1
        /\ calendar_events[i] <= 1

\* C5: a workflow run whose booking failed (raised, or returned {"error": ...})
\* never invokes the mail tool and ends with the row in status error
C5_NoNotifyAfterFailedBooking ==
    \A r \in Requests :
        wf_book[r] \in {"error_result", "raised"}
            => /\ wf_mail[r] = "none"
               /\ wf_pc[r] = "done" => interviews[req_id[r]].status = "error"

Statuses == {"pending", "approved", "scheduled", "rejected", "error"}
LedgerTransitions ==
    {<<"pending", "approved">>, <<"approved", "scheduled">>,
     <<"approved", "error">>, <<"pending", "rejected">>}

\* C8: every status is one of the five, and every status change is one of
\* pending -> approved, approved -> scheduled, approved -> error,
\* pending -> rejected
C8_LedgerStateMachine ==
    /\ [](\A i \in DOMAIN interviews : interviews[i].status \in Statuses)
    /\ [][\A i \in DOMAIN interviews :
            interviews'[i].status # interviews[i].status
                => <<interviews[i].status, interviews'[i].status>> \in LedgerTransitions]_vars

-----------------------------------------------------------------------------
(* Properties of the control loop *)

\* a result of the control tool with success = false is in the conversation
FailedControlResult(msgs) ==
    \E i \in 1..Len(msgs) : msgs[i].role = "tool" /\ msgs[i].content = "success_false"

\* number of invocations of the send_gmail tool so far
GmailInvocations(log) ==
    Cardinality({i \in 1..Len(log) : log[i].call.name = "send_gmail"})

\* C6: once a failed control-tool result has been appended to the conversation,
\* no step of the run invokes send_gmail
C6_GateEnforcement ==
    [][FailedControlResult(messages)
          => GmailInvocations(invocations') = GmailInvocations(invocations)]_vars

\* invocation i of the log is a control-tool call with the arguments a
ControlCallWith(i, a) ==
    invocations[i].call.name = ControlTool /\ invocations[i].call.args = a

\* C7: a control-tool call with {interview_time: T, interview_duration_minutes: d}
\* and one with {start_time: T, end_time: T + d minutes} create rows with the
\* same proposed_start_time and the same proposed_end_time
C7_ArgumentDuality ==
    \A i, j \in 1..Len(invocations) : \A T \in IsoTimes : \A d \in DurationArgs :
        (/\ ControlCallWith(i, [interview_time |-> T, interview_duration_minutes |-> d])
         /\ ControlCallWith(j, [start_time |-> T,
                                end_time |-> isoformat(fromisoformat(T) + d)]))
            => /\ invocations[i].interview_id \in DOMAIN interviews
               /\ invocations[j].interview_id \in DOMAIN interviews
               /\ interviews[invocations[i].interview_id].proposed_start_time
                    = interviews[invocations[j].interview_id].proposed_start_time
               /\ interviews[invocations[i].interview_id].proposed_end_time
                    = interviews[invocations[j].interview_id].proposed_end_time

\* C7 witness: both shapes were used for day 1 15:30 and 45 minutes, and both
\* calls created a row
C7_Witness ==
    \E i, j \in 1..Len(invocations) :
        /\ ControlCallWith(i, [interview_time |-> <<1, 15, 30>>,
                               interview_duration_minutes |-> 45])
        /\ ControlCallWith(j, [start_time |-> <<1, 15, 30>>, end_time |-> <<1, 16, 15>>])
        /\ invocations[i].interview_id \in DOMAIN interviews
        /\ invocations[j].interview_id \in DOMAIN interviews
        /\ invocations[i].interview_id # invocations[j].interview_id

\* C9: once the dispatch of a batch is over, the batch's n requests are followed
\* by exactly n tool messages, and every request's id is carried by exactly one
\* of them
C9_OneResultPerCall ==
    \A i \in 1..Len(messages) :
        LET calls == messages[i].tool_calls
            n == Len(calls)
        IN (messages[i].role = "ai" /\ n > 0 /\ Len(messages) > i)
            => /\ Len(messages) >= i + n
               /\ \A k \in 1..n : messages[i + k].role = "tool"
               /\ (Len(messages) > i + n => messages[i + n + 1].role = "ai")
               /\ \A c \in 1..n :
                    Cardinality({k \in 1..n : messages[i + k].tool_call_id = calls[c].id}) = 1

\* C10: an exception raised by an action tool does not leave the loop; the call
\* gets an error result in the conversation
C10_ToolExceptionContained ==
    \A i \in 1..Len(invocations) :
        invocations[i].outcome = "raise"
            => /\ agent_pc # "raised"
               /\ \E m \in 1..Len(messages) :
                    /\ messages[m].role = "tool"
                    /\ messages[m].tool_call_id = invocations[i].call.id
                    /\ messages[m].content = "error"

\* the batch requested by message i has been dispatched: its results are in the
\* conversation, or the dispatch was left by an exception
Dispatched(i) == Len(messages) > i \/ (Len(messages) = i /\ agent_pc = "raised")

\* rows created so far by the control tool, as the invocation log tells
CreatedRows ==
    Cardinality({j \in 1..Len(invocations) : invocations[j].outcome = "success_true"})

\* C11: in a dispatched batch, a call of an unknown tool is answered by a
\* "tool not found" message carrying its id, every other call of the batch is
\* invoked and answered, and the unknown call adds no row and no invocation
C11_UnknownToolIsolated ==
    \A i \in 1..Len(messages) :
        LET calls == messages[i].tool_calls
            n == Len(calls)
        IN (/\ messages[i].role = "ai"
            /\ Dispatched(i)
            /\ \E k \in 1..n : calls[k].name = UnknownTool)
            => /\ Len(messages) >= i + n
               /\ \A k \in 1..n :
                    IF calls[k].name = UnknownTool
                    THEN /\ messages[i + k] = ToolMessage("not_found", calls[k].id, 0)
                         /\ ~\E j \in 1..Len(invocations) : invocations[j].call = calls[k]
                    ELSE /\ messages[i + k].role = "tool"
                         /\ messages[i + k].content # "not_found"
                         /\ \E j \in 1..Len(invocations) : invocations[j].call = calls[k]
               /\ Len(interviews) = CreatedRows

\* the last message is the one call_model builds from an exception
ModelFailed(msgs) == msgs[Len(msgs)].role = "ai" /\ msgs[Len(msgs)].content = "model_error"

\* C12: when the reasoning service fails, the step appends one failure message
\* without tool calls and touches nothing else, the run is then at "end", and no
\* further step (no dispatch, no call of the reasoning service) is taken
C12_ModelFailureEndsRun ==
    /\ [](ModelFailed(messages)
            => /\ agent_pc = "end"
               /\ messages[Len(messages)].tool_calls = <<>>
               /\ Cardinality({i \in 1..Len(messages) :
                                  messages[i].content = "model_error"}) = 1)
    /\ [][ModelFailed(messages')
            => /\ messages' = Append(messages, messages'[Len(messages')])
               /\ invocations' = invocations
               /\ interviews' = interviews]_vars
    /\ [][~ModelFailed(messages)]_vars

\* C12 witness: the reasoning service failed in a step after a dispatched batch
C12_Witness ==
    /\ ModelFailed(messages)
    /\ agent_pc = "end"
    /\ \E i \in 1..Len(messages) : messages[i].role = "tool"

\* the arguments lack both start keys, or both the end text and the duration
Malformed(args) ==
    \/ {"start_time", "interview_time"} \cap DOMAIN args = {}
    \/ {"end_time", "interview_duration_minutes"} \cap DOMAIN args = {}

\* C13: a control-tool call with malformed arguments returns success = false,
\* creates no row (the table holds exactly the rows of the successful calls),
\* and an exception in flight never comes from the control tool
C13_MalformedControlArgs ==
    /\ \A j \in 1..Len(invocations) :
        (invocations[j].call.name = ControlTool /\ Malformed(invocations[j].call.args))
            => /\ invocations[j].outcome = "success_false"
               /\ invocations[j].interview_id = 0
    /\ Len(interviews) = CreatedRows
    /\ agent_pc = "raised" => invocations[Len(invocations)].call.name \in tools

\* C13 witness: both malformed shapes were dispatched in one run, their failure
\* results are in the conversation and the run goes on
C13_Witness ==
    /\ agent_pc = "agent"
    /\ \E j1, j2 \in 1..Len(invocations) :
        /\ ControlCallWith(j1, [end_time |-> <<1, 16, 15>>])
        /\ ControlCallWith(j2, [start_time |-> <<1, 15, 30>>])
        /\ invocations[j1].outcome = "success_false"
        /\ invocations[j2].outcome = "success_false"
    /\ Cardinality({i \in 1..Len(messages) : messages[i].content = "success_false"}) >= 2
    /\ interviews = <<>>

-----------------------------------------------------------------------------
(* Properties of the approval workflow's failure handling *)

\* a step of workflow run r raised: a query or a write, the booking tool or
\* the mail tool
StepRaised(r) ==
    \/ wf_pc[r] \in {"failed", "propagated"}
    \/ wf_book[r] = "raised"
    \/ wf_mail[r] = "raised"

\* C14: no exception leaves run_approval_workflow, and a run in which a step
\* raised ends with the row in status error
C14_WorkflowContainsFailures ==
    \A r \in Requests :
        /\ wf_pc[r] # "propagated"
        /\ (wf_pc[r] = "done" /\ StepRaised(r)) => interviews[req_id[r]].status = "error"

C16_ScheduledOnlyAfterNotification ==
    /\ [][\A r \in Requests :
            (wf_pc[r] = "update" /\ wf_pc'[r] = "done")
                => /\ wf_book[r] \in {"created", "created_no_link"}
                   /\ wf_mail[r] = "sent"]_vars
    /\ [](\A r \in Requests :
            (wf_pc[r] = "done" /\ wf_mail[r] = "error_result")
                => interviews[req_id[r]].status = "error")

-----------------------------------------------------------------------------
(* Properties of the slot search: horizon and business hours *)

\* every business-hours minute of the horizon lies in some busy interval
BusinessHoursCovered ==
    \A t \in start_dt..(start_dt + 7 * 1440 - 1) :
        (t % 1440) \in 540..1019
            => \E i \in 1..Len(busy_slots) : busy_slots[i].start <= t /\ t < busy_slots[i].end

\* C17: when the busy intervals cover the business hours of the whole horizon,
\* the search ends with the error result and returns no slot
C17_NoSlotWhenCovered ==
    (sf_pc = "done" /\ BusinessHoursCovered) => sf_result = [kind |-> "error"]

\* C18: a returned slot starts no earlier than search_start and ends no later
\* than search_start + 7 days
C18_SlotWithinHorizon ==
    sf_result.kind = "slot"
        => /\ start_dt <= sf_result.start_time
           /\ sf_result.end_time <= start_dt + 7 * 1440

-----------------------------------------------------------------------------
(* Properties of the dispatch order *)

\* message m is the result that the k-th call of a batch gets: the control
\* tool's result as logged for that call, an action tool's result under the
\* call's id, or the "not found" result under the call's id
ResultOf(m, call) ==
    IF call.name = ControlTool
    THEN /\ m.role = "tool"
         /\ \E j \in 1..Len(invocations) :
              /\ invocations[j].call = call
              /\ invocations[j].outcome = m.content
              /\ invocations[j].interview_id = m.interview_id
    ELSE IF call.name \in tools
    THEN /\ m.role = "tool"
         /\ m.tool_call_id = call.id
         /\ m.content \in {"ok", "error"}
    ELSE m = ToolMessage("not_found", call.id, 0)

\* C20: the results appended for a batch stand in the order of its calls: the
\* k-th message after the request is the result of the k-th call
C20_ResultsInCallOrder ==
    \A i \in 1..Len(messages) :
        LET calls == messages[i].tool_calls IN
        (messages[i].role = "ai" /\ calls # <<>> /\ Len(messages) > i)
            => /\ Len(messages) >= i + Len(calls)
               /\ \A k \in 1..Len(calls) : ResultOf(messages[i + k], calls[k])

\* C20 witness: a batch of an action tool, the control tool and an unknown tool,
\* in this order, was dispatched and the control tool created a row
C20_Witness ==
    \E i \in 1..Len(messages) :
        LET calls == messages[i].tool_calls IN
        /\ Len(calls) = 3
        /\ Len(messages) >= i + 3
        /\ calls[1].name \in tools
        /\ calls[2].name = ControlTool
        /\ calls[3].name = UnknownTool
        /\ messages[i + 2].content = "success_true"
        /\ messages[i + 3].content = "not_found"

-----------------------------------------------------------------------------
(* Properties of the conversation *)

\* C21: every step of the loop leaves the previous message list as a prefix of
\* the new one
C21_MessagesAppendOnly ==
    [][/\ Len(messages') >= Len(messages)
       /\ SubSeq(messages', 1, Len(messages)) = messages]_vars

\* C21 witness: two batches were dispatched and their results appended, and the
\* reasoning service has answered after the second
C21_Witness ==
    /\ Cardinality({i \in 1..Len(messages) :
                       messages[i].role = "ai" /\ messages[i].tool_calls # <<>>}) = 2
    /\ messages[Len(messages)].role = "ai"
    /\ messages[Len(messages)].content = "final"
    /\ messages[1] = HumanMessage

\* C22: a reasoning step that requests tool calls goes to the dispatch, a
\* reasoning step without tool calls ends the run, a dispatch appends its results
\* and goes back to the reasoning step, and nothing happens after the end
C22_StrictAlternation ==
    [][/\ agent_pc \in {"agent", "action"}
       /\ agent_pc = "agent"
            => /\ messages'[Len(messages')].role = "ai"
               /\ agent_pc' = IF messages'[Len(messages')].tool_calls # <<>>
                              THEN "action" ELSE "end"
       /\ agent_pc = "action"
            => /\ agent_pc' = "agent"
               /\ Len(messages') = Len(messages) + Len(messages[Len(messages)].tool_calls)]_vars

-----------------------------------------------------------------------------
(* Properties of the ledger during a control-loop run *)

\* invocations logged by the step being taken
NewInvocations == (Len(invocations) + 1)..Len(invocations')

\* C23: a step of the loop keeps every existing row as it is, and adds exactly
\* one pending row per control-tool call of the step that reported success;
\* calls of action tools and of unknown tools add and change nothing
C23_OnlyControlToolChangesLedger ==
    [][/\ Len(interviews') >= Len(interviews)
       /\ SubSeq(interviews', 1, Len(interviews)) = interviews
       /\ Len(interviews') - Len(interviews)
            = Cardinality({j \in NewInvocations :
                              /\ invocations'[j].call.name = ControlTool
                              /\ invocations'[j].outcome = "success_true"})
       /\ \A i \in (Len(interviews) + 1)..Len(interviews') :
            interviews'[i].status = "pending"]_vars

\* C23 witness: an action tool has been invoked, an unknown tool has been
\* answered, the control tool has created a row, and the table holds that row only
C23_Witness ==
    /\ Len(interviews) = 1
    /\ CreatedRows = 1
    /\ \E j \in 1..Len(invocations) :
        invocations[j].call.name \in tools /\ invocations[j].outcome = "ok"
    /\ \E i \in 1..Len(messages) : messages[i].content = "not_found"
    /\ agent_pc = "agent"

\* C24: every row of the table has proposed_end_time > proposed_start_time
C24_EndAfterStart ==
    \A i \in DOMAIN interviews :
        interviews[i].proposed_end_time > interviews[i].proposed_start_time

-----------------------------------------------------------------------------
(* Properties of the ledger's statuses *)

\* C25: whenever a row is pending, some operation of the service can take it to
\* rejected in one step that creates no calendar event
C25_RejectedReachable ==
    \A i \in DOMAIN interviews :
        interviews[i].status = "pending"
            => ENABLED (/\ ApprovalNext
                        /\ interviews'[i].status = "rejected"
                        /\ calendar_events' = calendar_events)

-----------------------------------------------------------------------------
(* Properties of the proposals made in a run *)

\* the interval that the result "ok" of find_free_calendar_slot carries in the
\* runs explored: day 1 15:30 - 16:15
FoundSlot == [start_time |-> <<1, 15, 30>>, end_time |-> <<1, 16, 15>>]

\* C26: every row created in a run was preceded, in that run, by a successful
\* find_free_calendar_slot invocation, and holds the interval it returned
C26_ProposalIsFoundSlot ==
    \A j \in 1..Len(invocations) :
        (invocations[j].call.name = ControlTool /\ invocations[j].outcome = "success_true")
            => /\ \E k \in 1..(j - 1) :
                    /\ invocations[k].call.name = "find_free_calendar_slot"
                    /\ invocations[k].outcome = "ok"
               /\ interviews[invocations[j].interview_id].proposed_start_time
                    = fromisoformat(FoundSlot.start_time)
               /\ interviews[invocations[j].interview_id].proposed_end_time
                    = fromisoformat(FoundSlot.end_time)

\* C27: a run creates at most one row for its candidate
C27_OneRowPerRun ==
    Cardinality({i \in DOMAIN interviews :
                    interviews[i].candidate_id = task.candidate_id}) <= 1

-----------------------------------------------------------------------------
(* Properties of one control-tool call *)

\* C28: a call with well-formed arguments whose database call returns adds
\* exactly one row, pending, with the candidate and the job of the task context,
\* and returns success = true with the new row's id; success = true is returned
\* only with a row added, and a call whose database call raises adds no row and
\* returns success = false
C28_CreateAddsOnePendingRow ==
    [][LET e == invocations'[Len(invocations')]
           m == messages'[Len(messages')]
           n == Len(interviews')
       IN /\ (~Malformed(e.call.args) /\ e.db = "ok")
                => /\ n = Len(interviews) + 1
                   /\ SubSeq(interviews', 1, n - 1) = interviews
                   /\ interviews'[n].status = "pending"
                   /\ interviews'[n].candidate_id = task.candidate_id
                   /\ interviews'[n].job_id = task.job_id
                   /\ m.content = "success_true"
                   /\ m.interview_id = n
          /\ m.content = "success_true"
                => n = Len(interviews) + 1 /\ m.interview_id = n
          /\ e.db = "raise"
                => interviews' = interviews /\ m.content = "success_false"]_vars

\* C28 witness: a run in which one well-formed call was stored, under a task
\* whose job id differs from its candidate id, and another well-formed call
\* failed at the database
C28_Witness ==
    /\ agent_pc = "action"
    /\ task.candidate_id # task.job_id
    /\ Len(interviews) = 1
    /\ \E j1, j2 \in 1..Len(invocations) :
        /\ invocations[j1].outcome = "success_true"
        /\ invocations[j1].interview_id = 1
        /\ invocations[j2].db = "raise"
        /\ invocations[j2].outcome = "success_false"


-----------------------------------------------------------------------------
(* C29: workflow instances of different candidates do not interfere *)

\* request r took a step of its handler or of its workflow
Moved(r) == req_pc'[r] # req_pc[r] \/ wf_pc'[r] # wf_pc[r]

\* the requests that name row i
RowRequests(i) == {r \in Requests : req_id[r] = i}

\* a step changes of a stored row at most the status, and only as a step of a
\* request that names this very row: a run or a workflow of another candidate
\* leaves the row as it is
RowFootprint ==
    \A i \in DOMAIN interviews :
        /\ i \in DOMAIN interviews'
        /\ [interviews'[i] EXCEPT !.status = interviews[i].status] = interviews[i]
        /\ interviews'[i].status # interviews[i].status
              => \E r \in RowRequests(i) :
                    /\ Moved(r)
                    /\ \A q \in Requests \ {r} : ~Moved(q)

\* the status row i has when only its own request r has acted on it
AloneStatuses(r) ==
    IF req_pc[r] \notin {"written", "http200"} THEN {"pending"}
    ELSE IF wf_pc[r] = "done" THEN {"scheduled", "error"}
    ELSE {"approved"}

\* a row named by one request has the status that request alone gives it,
\* whatever the other candidates' runs and workflows did meanwhile; a row
\* named by no request is pending
OwnOutcome ==
    \A i \in DOMAIN interviews :
        /\ RowRequests(i) = {} => interviews[i].status = "pending"
        /\ \A r \in RowRequests(i) :
              RowRequests(i) = {r} => interviews[i].status \in AloneStatuses(r)

\* C29: in every interleaving of control-loop runs and approval workflows, a
\* step for one candidate's row never changes the status or the payload of
\* another row, and a row's status is the one its own workflow, run alone,
\* gives it
C29_NoInterference == [][RowFootprint /\ OwnOutcome']_vars

\* two rows of different candidates, each named by one request, whose
\* workflows both finished, one scheduled and one in error
C29_Witness ==
    /\ Len(interviews) >= 2
    /\ \E i, j \in DOMAIN interviews, r, q \in Requests :
        /\ interviews[i].candidate_id # interviews[j].candidate_id
        /\ RowRequests(i) = {r} /\ RowRequests(j) = {q}
        /\ wf_pc[r] = "done" /\ wf_pc[q] = "done"
        /\ interviews[i].status = "scheduled"
        /\ interviews[j].status = "error"


-----------------------------------------------------------------------------
(* C30: the slot search terminates for durations of at least one minute *)

\* an iteration that does not return moves the cursor strictly forward
CursorAdvances ==
    (duration_minutes >= 1 /\ sf_pc = "loop" /\ sf_pc' = "loop")
        => current_time' > current_time

\* C30: for every search_start, every busy list and every duration of at least
\* one minute, each iteration that does not return strictly advances the
\* cursor, and the loop ends with a slot or with the no-slot error
C30_SearchTerminates ==
    /\ [][CursorAdvances]_vars
    /\ (duration_minutes >= 1 => <>(sf_pc = "done" /\ sf_result.kind \in {"slot", "error"}))

\* a search of a positive duration that ran past busy time and closing hours
\* and ended with the no-slot error
C30_Witness ==
    /\ duration_minutes >= 1
    /\ busy_slots # <<>>
    /\ sf_pc = "done"
    /\ sf_result.kind = "error"
    /\ current_time >= SearchEnd


-----------------------------------------------------------------------------
(* C31: after an overlap the next probe is the busy interval's end *)

\* the busy interval the probe at the cursor runs into (0 when there is none)
HitAtCursor == FirstOverlap(current_time, current_time + duration_minutes, busy_slots)

\* C31: when the candidate slot at the cursor overlaps a busy interval whose
\* end lies within business hours, the next position probed is exactly that
\* end, so a free slot beginning where the busy interval ends is returned
C31_NextProbeIsBusyEnd ==
    [][(/\ sf_pc = "loop"
        /\ current_time < SearchEnd
        /\ InBusinessHours(current_time)
        /\ HitAtCursor # 0
        /\ InBusinessHours(busy_slots[HitAtCursor].end))
          => current_time' = busy_slots[HitAtCursor].end]_vars


-----------------------------------------------------------------------------
(* C32: outside business hours the next probe is the next window-open time *)

\* 09:00 of the current day before opening, 09:00 of the following day otherwise
NextWindowOpen(t) ==
    IF Hour(t) < OpenHour
    THEN (t \div MinutesPerDay) * MinutesPerDay + OpenHour * MinutesPerHour
    ELSE NextDayOpen(t)

\* C32: when the cursor's clock time is before 09:00 or at/after 17:00, the
\* next position probed is the next window-open time
\* (a position outside business hours is passed over without a test, so the
\* positions probed are those within business hours)
C32_NextProbeIsWindowOpen ==
    [][(/\ sf_pc = "loop"
        /\ current_time < SearchEnd
        /\ ~InBusinessHours(current_time)
        /\ InBusinessHours(current_time'))
          => current_time' = NextWindowOpen(current_time)]_vars


-----------------------------------------------------------------------------
(* C33: busy intervals are half-open [start, end) *)

\* busy interval i rejects the candidate [c, c + d)
Rejects(i, c, d) == c < busy_slots[i].end /\ c + d > busy_slots[i].start

-----------------------------------------------------------------------------
(* C34: no automatic retry in the dispatcher *)

\* the calls of registered tools and of the control tool requested so far
RequestedCalls ==
    {c \in UNION {{messages[i].tool_calls[k] : k \in 1..Len(messages[i].tool_calls)} :
                      i \in 1..Len(messages)} :
        c.name \in tools \cup {ControlTool}}

\* the invocations made for the call with this id
InvocationsOf(id) == {j \in 1..Len(invocations) : invocations[j].call.id = id}

\* C34: no call is invoked twice, once the batches requested are dispatched
\* each requested call of a tool has exactly one invocation, and the ledger
\* holds at most one row per requested control-tool call
C34_OneInvocationPerCall ==
    /\ \A c \in RequestedCalls : Cardinality(InvocationsOf(c.id)) <= 1
    /\ agent_pc # "action"
          => \A c \in RequestedCalls : Cardinality(InvocationsOf(c.id)) = 1
    /\ Len(interviews) <= Cardinality({c \in RequestedCalls : c.name = ControlTool})


-----------------------------------------------------------------------------
(* C35: the booking action comes before the notification *)

\* the booking action of run r was invoked and returned
Booked(r) == wf_book[r] \in {"created", "created_no_link", "error_result"}

\* C35: the notification of a run is invoked only after the booking action of
\* the same run was invoked and returned, the booking is never invoked after
\* the notification, a mail is delivered for an entry only if a run naming it
\* invoked the booking, and the link in the mail is the hangoutLink of that
\* run's booking result or else the placeholder
C35_BookingBeforeNotification ==
    [][/\ \A r \in Requests :
            /\ wf_mail'[r] # "none" => Booked(r) /\ wf_book'[r] = wf_book[r]
            /\ wf_mail[r] # "none" => wf_book'[r] = wf_book[r]
            /\ wf_mail'[r] # "none"
                  => wf_link'[r] = IF wf_book[r] = "created" THEN HangoutLink(r)
                                   ELSE Placeholder
       /\ \A i \in DOMAIN candidate_mails :
            candidate_mails'[i] > 0 => \E r \in Requests : req_id[r] = i /\ Booked(r)]_vars

\* a mail was delivered that carries the link of the event booked in its run
C35_Witness ==
    \E r \in Requests :
        /\ wf_book[r] = "created"
        /\ wf_mail[r] = "sent"
        /\ wf_link[r] = HangoutLink(r)
        /\ candidate_mails[req_id[r]] > 0


-----------------------------------------------------------------------------
(* C36: a booking result without meeting link does not fail the workflow *)

\* C36: in a run whose booking succeeded without a meeting link, the workflow
\* goes on to the notification, the mail carries the placeholder, the run goes
\* on to the status update unless the mail call itself raises, the update
\* writes scheduled, and the run enters the except block only through a raise
\* of the mail call or of the status write
C36_MissingLinkPlaceholder ==
    [][\A r \in Requests :
          /\ (wf_pc[r] = "book" /\ wf_book'[r] = "created_no_link")
                => wf_pc'[r] = "notify"
          /\ (wf_pc[r] = "notify" /\ wf_pc'[r] # "notify" /\ wf_book[r] = "created_no_link")
                => /\ wf_link'[r] = Placeholder
                   /\ wf_mail'[r] # "raised" => wf_pc'[r] = "update"
          /\ (wf_pc[r] = "update" /\ wf_pc'[r] = "done" /\ wf_book[r] = "created_no_link")
                => interviews'[req_id[r]].status = "scheduled"
          /\ (wf_book'[r] = "created_no_link" /\ wf_pc[r] # "failed" /\ wf_pc'[r] = "failed")
                => wf_mail'[r] = "raised" \/ wf_pc[r] = "update"]_vars

\* a run booked an event without link, mailed the placeholder and left the
\* entry scheduled
C36_Witness ==
    \E r \in Requests :
        /\ wf_book[r] = "created_no_link"
        /\ wf_link[r] = Placeholder
        /\ wf_mail[r] = "sent"
        /\ wf_pc[r] = "done"
        /\ interviews[req_id[r]].status = "scheduled"


-----------------------------------------------------------------------------
(* C37: ledger entries are never deleted and their payload never changes *)

\* the columns of a row other than its status
Payload(row) ==
    [candidate_id |-> row.candidate_id, job_id |-> row.job_id, summary |-> row.summary,
     proposed_start_time |-> row.proposed_start_time,
     proposed_end_time |-> row.proposed_end_time]

\* C37: in every step of the control-tool calls, approval triggers and
\* approval workflows the set of ledger ids only grows, and the candidate id,
\* job id, summary and proposed times of every existing entry stay as they are
C37_NeverDeleted ==
    [][/\ DOMAIN interviews \subseteq DOMAIN interviews'
       /\ \A i \in DOMAIN interviews : Payload(interviews'[i]) = Payload(interviews[i])]_vars

\* the stored entry went through a failed workflow, a later entry was added by
\* a control-tool call, and the stored entry still has its payload
C37_Witness ==
    /\ Len(interviews) > NumInterviews
    /\ interviews[1].status = "error"
    /\ interviews[Len(interviews)].status = "approved"
    /\ Payload(interviews[1]) = Payload(PendingRow(1, 1, StoredStart, StoredEnd))


-----------------------------------------------------------------------------
(* C38: the slot search terminates for every duration the schema accepts *)

\* C38: the search terminates for every integer duration_minutes, 0 included,
\* and every search_start: in particular the running loop is never at a cursor
\* where its iteration neither returns nor changes anything (the loop is
\* deterministic, so such an iteration is repeated for ever)
C38_SearchAlwaysTerminates ==
    sf_pc = "loop" => ENABLED <<SlotsNext>>_vars


-----------------------------------------------------------------------------
(* C39: no entry stays approved for ever *)

\* request r names row i and its handler or its workflow still has a step to
\* take that leads to a write of the row's status
StillRunning(r, i) ==
    /\ req_id[r] = i
    /\ \/ req_pc[r] = "written"
       \/ wf_pc[r] \in {"queued", "book", "notify", "update", "failed"}

\* C39: every entry moved to approved reaches scheduled or error once its
\* workflow is executed: an approved entry always has a workflow that is still
\* to be enqueued or still running (an approved entry whose runs have all
\* ended is written by nobody any more and stays approved for ever)
C39_ApprovedIsTransient ==
    \A i \in DOMAIN interviews :
        interviews[i].status = "approved" => \E r \in Requests : StillRunning(r, i)

=============================================================================
